---- MODULE Spec2Model ----
(***************************************************************************)
(* Model of the bill ledger of afterthought/hsa_agent:                     *)
(* src/spreadsheet_manager.py (class SpreadsheetManager) and the workbook  *)
(* it keeps on disk.  Manager sessions are constructed on one backing      *)
(* workbook, add records to a private in-memory DataFrame, save it, and    *)
(* produce summaries and exports.                                          *)
(*                                                                         *)
(* Conventions                                                             *)
(*  - a DataFrame is a sequence of rows, a row a record with the nine      *)
(*    canonical columns;                                                   *)
(*  - amounts are exact integers counting thousandths of a dollar (float   *)
(*    rounding of sums is not modelled);                                   *)
(*  - a Timestamp is [year, month, day, ms, us]: milliseconds since        *)
(*    midnight and microseconds within the millisecond;                    *)
(*  - the missing values of pandas (NaT, NaN) are reserved values of the   *)
(*    column's type, and the comparisons of the source language are the    *)
(*    operators NumEq / TsLess, under which NaN equals nothing.            *)
(***************************************************************************)
EXTENDS Integers, Sequences, FiniteSets, TLC

\* Number of readings of the wall clock (pd.Timestamp.now()) a run may take.
MaxClock == 2

\* The manager sessions (two processes, or two managers in one process).
Sessions == {"s1", "s2"}

-----------------------------------------------------------------------------
(* Missing values *)

\* pandas NaT: the missing Timestamp.
NaT == [year |-> 0, month |-> 0, day |-> 0, ms |-> 0, us |-> 0]

IsNaT(t) == t.year = 0

\* float('nan') in a numeric column (year, month).
nan == -1

\* float('nan') in a text column (what read_excel yields for an empty cell).
NaN == "<NaN>"

\* Python's == on numbers: nan compares unequal to everything, itself included.
NumEq(a, b) == a # nan /\ b # nan /\ a = b

-----------------------------------------------------------------------------
(* Timestamps *)

TS(y, mo, d, ms, us) == [year |-> y, month |-> mo, day |-> d, ms |-> ms, us |-> us]

MsPerDay == 86400000

\* Timestamp.year / Timestamp.month: nan for NaT.
YearOf(t) == IF IsNaT(t) THEN nan ELSE t.year

MonthOf(t) == IF IsNaT(t) THEN nan ELSE t.month

IsLeap(y) == (y % 4 = 0 /\ y % 100 # 0) \/ y % 400 = 0

DaysInMonth(y, mo) ==
    IF mo = 2 THEN (IF IsLeap(y) THEN 29 ELSE 28)
    ELSE IF mo \in {4, 6, 9, 11} THEN 30 ELSE 31

\* The calendar day after (y, mo, d), at midnight.
NextDay(t) ==
    IF t.day < DaysInMonth(t.year, t.month) THEN TS(t.year, t.month, t.day + 1, 0, 0)
    ELSE IF t.month < 12 THEN TS(t.year, t.month + 1, 1, 0, 0)
    ELSE TS(t.year + 1, 1, 1, 0, 0)

\* Strict order of Timestamps (both operands not NaT).
TsLess(a, b) ==
    LET ka == <<a.year, a.month, a.day, a.ms, a.us>>
        kb == <<b.year, b.month, b.day, b.ms, b.us>>
    IN \E i \in 1..5 : ka[i] < kb[i] /\ \A j \in 1..(i - 1) : ka[j] = kb[j]

\* pd.Timestamp.now() at the c-th reading of the clock: microsecond resolution.
NowAt(c) == TS(2025, 2, 10, 36000000 + 1000 * c, 400)

-----------------------------------------------------------------------------
(* pd.to_datetime on a scalar *)

\* None, as a value of a dict key.
None == "<None>"

\* Strings (and null) that pd.to_datetime maps to NaT without raising.
NaTStrings == {"", None, "NaT", "nan"}

\* The dates pd.to_datetime parses out of the date strings callers supply.
DateTable ==
    [x \in {"2024-01-15", "2024-12-31 23:59:59.9996"} |->
        CASE x = "2024-01-15" -> TS(2024, 1, 15, 0, 0)
          [] x = "2024-12-31 23:59:59.9996" -> TS(2024, 12, 31, MsPerDay - 1, 600)]

\* Result of pd.to_datetime(x): raises for text that is no date.
to_datetime(x) ==
    IF x \in NaTStrings THEN [raises |-> FALSE, value |-> NaT]
    ELSE IF x \in DOMAIN DateTable THEN [raises |-> FALSE, value |-> DateTable[x]]
    ELSE [raises |-> TRUE, value |-> NaT]

-----------------------------------------------------------------------------
(* float() *)

\* float(x) of the amounts callers supply, in thousandths.
FloatTable ==
    [x \in {"0.0", "120.00", "80.004", "50.00", "12.346"} |->
        CASE x = "0.0" -> 0
          [] x = "120.00" -> 120000
          [] x = "80.004" -> 80004
          [] x = "50.00" -> 50000
          [] x = "12.346" -> 12346]

FloatRaises(x) == x \notin DOMAIN FloatTable

FloatOf(x) == FloatTable[x]

-----------------------------------------------------------------------------
(* Caller-supplied records: dicts with optional keys *)

\* dict.get(key, default)
Get(rec, key, default) == IF key \in DOMAIN rec THEN rec[key] ELSE default

Inputs ==
    { [provider |-> "Dr. Smith", date |-> "2024-01-15", amount |-> "120.00",
       category |-> "medical", description |-> "visit", pdf_path |-> "a.pdf"],
      [provider |-> "Fit Gym", date |-> "2024-12-31 23:59:59.9996",
       amount |-> "80.004", category |-> "gym"],
      [amount |-> "50.00"],
      [provider |-> "Dr. Jones", date |-> "next tuesday", amount |-> "12.346",
       category |-> "dental"],
      [provider |-> "Dr. Smith", date |-> "2024-01-15", amount |-> "twelve"] }

-----------------------------------------------------------------------------
(* DataFrames *)

Columns ==
    <<"date", "provider", "amount", "category", "description", "pdf_path",
      "year", "month", "added_on">>

\* _create_empty_dataframe: no rows (the columns are those of every row).
EmptyDataFrame == <<>>

\* DataFrame.empty
IsEmpty(d) == Len(d) = 0

RECURSIVE SumAmount(_)
\* Series.sum() of the amount column.
SumAmount(d) == IF d = <<>> THEN 0 ELSE Head(d).amount + SumAmount(Tail(d))

\* The missing value of a column, by its type.
Missing(col) ==
    IF col \in {"year", "month"} THEN nan ELSE NaN

\* Keys of df.groupby(col): the distinct values, missing ones dropped.
GroupKeys(d, col) == {d[i][col] : i \in 1..Len(d)} \ {Missing(col)}

Group(d, col, k) == SelectSeq(d, LAMBDA r : r[col] = k)

\* A groupby that sums the whole frame for every key.
GroupSum_Whole(d, col) == [k \in GroupKeys(d, col) |-> SumAmount(d)]

\* df.groupby(col)["amount"].sum().to_dict()
GroupSum(d, col) == [k \in GroupKeys(d, col) |-> SumAmount(Group(d, col, k))]

\* Series.count(): the number of values of a column that are not missing.
CountText(d, col) == Len(SelectSeq(d, LAMBDA r : r[col] # NaN))

CountDates(d) == Len(SelectSeq(d, LAMBDA r : ~IsNaT(r.date)))

Perms(n) == {p \in [1..n -> 1..n] : \A i, j \in 1..n : i # j => p[i] # p[j]}

Permute(d, p) == [i \in 1..Len(d) |-> d[p[i]]]

\* a may stand directly before b after sort_values("date"): NaT goes last in
\* either direction.
InOrder(a, b, ascending) ==
    IsNaT(b) \/ (~IsNaT(a) /\ (IF ascending THEN ~TsLess(b, a) ELSE ~TsLess(a, b)))

\* A sort that leaves the rows where they are.
sort_values_Unsorted(d, ascending) == {d}

\* df.sort_values("date", ascending=...): the default sort is not stable, so
\* every arrangement of rows with equal dates is a possible result.
sort_values(d, ascending) ==
    {q \in {Permute(d, p) : p \in Perms(Len(d))} :
        \A i \in 1..(Len(d) - 1) : InOrder(q[i].date, q[i + 1].date, ascending)}

\* Series.min() / Series.max() of the date column: NaT is skipped, and is the
\* result when every date is NaT.
DateMin(d) ==
    LET ds == {d[i].date : i \in 1..Len(d)} \ {NaT}
    IN IF ds = {} THEN NaT ELSE CHOOSE t \in ds : \A u \in ds : ~TsLess(u, t)

DateMax(d) ==
    LET ds == {d[i].date : i \in 1..Len(d)} \ {NaT}
    IN IF ds = {} THEN NaT ELSE CHOOSE t \in ds : \A u \in ds : ~TsLess(t, u)

\* strftime("%B")
MonthName(mo) ==
    <<"January", "February", "March", "April", "May", "June", "July", "August",
      "September", "October", "November", "December">>[mo]

\* f"${x:.2f}" of x = num/den thousandths of a dollar: the amount in cents,
\* rounded to the nearest cent (a value exactly between two cents goes up here;
\* Python decides it by the binary value of the float).
FormatCents(num, den) == (2 * num + 10 * den) \div (20 * den)

-----------------------------------------------------------------------------
(* The workbook on disk: what to_excel writes and read_excel reads back *)

\* Text that read_excel takes for a missing value (its default na_values);
\* "" is the empty cell.
NAStrings == {"", "N/A", "NA", "NULL", "NaN", "None", "n/a", "nan", "null", "#N/A"}

\* to_excel of a text cell: missing values are written as na_rep = "", and an
\* empty string is written as an empty cell.
WriteText(v) == IF v = NaN THEN "" ELSE v

\* read_excel of a text cell.
ReadText(c) == IF c \in NAStrings THEN NaN ELSE c

\* openpyxl from_excel: a date cell is read back rounded to the millisecond.
from_excel(t) ==
    IF t.us < 500 THEN [t EXCEPT !.us = 0]
    ELSE IF t.ms + 1 < MsPerDay THEN [t EXCEPT !.ms = t.ms + 1, !.us = 0]
    ELSE NextDay(t)

\* read_excel of a date cell (NaT was written as an empty cell).
ReadDate(c) == IF IsNaT(c) THEN NaT ELSE from_excel(c)

\* DataFrame.to_excel(writer, sheet_name="Bills", index=False): one sheet row
\* per DataFrame row; numbers and dates are stored as they are.  other holds
\* the cells of the columns that are not canonical, in column order.
WriteRow(r) ==
    [r EXCEPT !.provider = WriteText(r.provider),
              !.category = WriteText(r.category),
              !.description = WriteText(r.description),
              !.pdf_path = WriteText(r.pdf_path),
              !.other = [i \in DOMAIN r.other |-> WriteText(r.other[i])]]

\* pd.read_excel(sheet_name="Bills") followed by pd.to_datetime of the date
\* column; year and month are taken from their cells.
ReadRow(c) ==
    [c EXCEPT !.date = ReadDate(c.date),
              !.added_on = ReadDate(c.added_on),
              !.provider = ReadText(c.provider),
              !.category = ReadText(c.category),
              !.description = ReadText(c.description),
              !.pdf_path = ReadText(c.pdf_path),
              !.other = [i \in DOMAIN c.other |-> ReadText(c.other[i])]]

BillsSheet(d) == [i \in 1..Len(d) |-> WriteRow(d[i])]

\* _write_summary_sheets: the rows of the three auxiliary sheets (their row
\* order is not modelled).  num_bills counts the non-missing values of the
\* counted column.
ByYearSheet(d) ==
    {[key |-> k, amount |-> SumAmount(Group(d, "year", k)),
      num_bills |-> CountText(Group(d, "year", k), "provider")] :
        k \in GroupKeys(d, "year")}

ByCategorySheet(d) ==
    {[key |-> WriteText(k), amount |-> SumAmount(Group(d, "category", k)),
      num_bills |-> CountText(Group(d, "category", k), "provider")] :
        k \in GroupKeys(d, "category")}

ByProviderSheet(d) ==
    {[key |-> WriteText(k), amount |-> SumAmount(Group(d, "provider", k)),
      num_bills |-> CountDates(Group(d, "provider", k))] :
        k \in GroupKeys(d, "provider")}

AbsentFile ==
    [kind |-> "absent", columns |-> <<>>, bills |-> <<>>, by_year |-> {},
     by_category |-> {}, by_provider |-> {}]

\* A file that read_excel cannot read (not a workbook, or no sheet "Bills").
CorruptFile ==
    [kind |-> "corrupt", columns |-> <<>>, bills |-> <<>>, by_year |-> {},
     by_category |-> {}, by_provider |-> {}]

\* The workbook save() writes for the sorted DataFrame d with the columns
\* cols: the header row of Bills is cols.
Workbook(cols, d) ==
    [kind |-> "valid", columns |-> cols, bills |-> BillsSheet(d),
     by_year |-> ByYearSheet(d), by_category |-> ByCategorySheet(d),
     by_provider |-> ByProviderSheet(d)]

\* A readable workbook written by another program: its sheet "Bills" has a
\* header row with other columns and no data rows.
ForeignHeaderFile ==
    [kind |-> "valid", columns |-> <<"name", "cost">>, bills |-> <<>>,
     by_year |-> {}, by_category |-> {}, by_provider |-> {}]

\* A workbook of this program to which a column "notes" was added by hand.
ForeignNotesFile ==
    Workbook(Columns \o <<"notes">>,
             <<[date |-> TS(2023, 3, 1, 0, 0), provider |-> "Old Clinic",
                amount |-> 30000, category |-> "medical", description |-> "",
                pdf_path |-> "", year |-> 2023, month |-> 3,
                added_on |-> TS(2023, 3, 2, 0, 0), other |-> <<"paid">>]>>)

\* Readable workbooks whose sheet "Bills" does not have the canonical schema.
ForeignFiles == {ForeignHeaderFile, ForeignNotesFile}

\* _load_or_create_dataframe: the rows of the DataFrame it returns.  A sheet
\* "Bills" that read_excel can read is taken as it is.
LoadFile(f) ==
    IF f.kind = "valid" THEN [i \in 1..Len(f.bills) |-> ReadRow(f.bills[i])]
    ELSE EmptyDataFrame

\* _load_or_create_dataframe: the columns of the DataFrame it returns.
LoadColumns(f) == IF f.kind = "valid" THEN f.columns ELSE Columns

\* The elements of the sequence q.
Range(q) == {q[i] : i \in 1..Len(q)}

\* pd.concat([df, new_df]): the columns of a DataFrame with the columns cols
\* after a row with the canonical columns is appended.
concat_columns(cols) == cols \o SelectSeq(Columns, LAMBDA c : c \notin Range(cols))

\* pd.concat([df, new_df]): the appended row row in a DataFrame with the
\* columns cols; the columns it does not have are filled with NaN.
concat_row(cols, row) ==
    [row EXCEPT !.other =
        [i \in 1..Len(SelectSeq(cols, LAMBDA c : c \notin Range(Columns))) |-> NaN]]

-----------------------------------------------------------------------------
(* State *)

VARIABLES
    file,      \* the backing workbook (workbook_path)
    df,        \* df[s]: the rows of the in-memory ledger of session s (self.df)
    columns,   \* columns[s]: the columns of the ledger of session s (self.df.columns)
    clock,     \* number of readings of the wall clock so far
    outputs,   \* outputs[p]: the export artifact at path p, <<>> while absent
    result     \* result[s]: the last call of session s and how it ended

vars == <<file, df, columns, clock, outputs, result>>

\* A call that returned None.
Returned(op) == [op |-> op, raised |-> "", summary |-> <<>>, path |-> ""]

\* get_summary returned the dict v.
ReturnedSummary(v) ==
    [op |-> "get_summary", raised |-> "", summary |-> <<v>>, path |-> ""]

\* An export returned the path of the artifact it wrote.
ReturnedPath(op, path) == [op |-> op, raised |-> "", summary |-> <<>>, path |-> path]

\* A call that raised an exception with the text message.
Raised(op, message) == [op |-> op, raised |-> message, summary |-> <<>>, path |-> ""]

TaxPath(year) == IF year = 2024 THEN "tax_export_2024.xlsx" ELSE "tax_export_2099.xlsx"

HsaPath == "hsa_reconciliation.xlsx"

OutputPaths == {TaxPath(2024), TaxPath(2099), HsaPath}

\* Every session starts with a manager constructed on the backing file, which
\* does not exist yet or is no readable workbook.
Init ==
    /\ file \in {AbsentFile, CorruptFile}
    /\ df = [s \in Sessions |-> LoadFile(file)]
    /\ columns = [s \in Sessions |-> LoadColumns(file)]
    /\ clock = 0
    /\ outputs = [p \in OutputPaths |-> <<>>]
    /\ result = [s \in Sessions |-> Returned("__init__")]

\* SpreadsheetManager(workbook_path): a fresh manager for session s.
Construct(s) ==
    /\ df' = [df EXCEPT ![s] = LoadFile(file)]
    /\ columns' = [columns EXCEPT ![s] = LoadColumns(file)]
    /\ result' = [result EXCEPT ![s] = Returned("__init__")]
    /\ UNCHANGED <<file, clock, outputs>>

\* The row add_record builds from the caller's dict.
NewRow(rec, date, added_on) ==
    [date |-> date,
     provider |-> Get(rec, "provider", ""),
     amount |-> FloatOf(Get(rec, "amount", "0.0")),
     category |-> Get(rec, "category", "medical"),
     description |-> Get(rec, "description", ""),
     pdf_path |-> Get(rec, "pdf_path", ""),
     year |-> YearOf(date),
     month |-> MonthOf(date),
     added_on |-> added_on,
     other |-> <<>>]

\* The date add_record resolves for rec when the clock stands at c.
ResolveDate(rec, c) ==
    LET parsed == to_datetime(Get(rec, "date", ""))
    IN IF parsed.raises THEN NowAt(c) ELSE parsed.value

\* The clock after add_record resolved the date of rec.
ClockAfterDate(rec, c) ==
    IF to_datetime(Get(rec, "date", "")).raises THEN c + 1 ELSE c

\* add_record that puts the new row first.
AddRecord_Prepend(s, rec) ==
    LET date == ResolveDate(rec, clock)
        c1 == ClockAfterDate(rec, clock)
    IN /\ IF FloatRaises(Get(rec, "amount", "0.0"))
          THEN /\ c1 <= MaxClock
               /\ clock' = c1
               /\ result' = [result EXCEPT ![s] =
                                Raised("add_record", "could not convert string to float")]
               /\ UNCHANGED <<df, columns>>
          ELSE /\ c1 + 1 <= MaxClock
               /\ clock' = c1 + 1
               /\ df' = [df EXCEPT ![s] =
                            <<concat_row(columns[s], NewRow(rec, date, NowAt(c1)))>>
                                \o df[s]]
               /\ columns' = [columns EXCEPT ![s] = concat_columns(columns[s])]
               /\ result' = [result EXCEPT ![s] = Returned("add_record")]
       /\ UNCHANGED <<file, outputs>>

\* manager.add_record(rec)
AddRecord(s, rec) ==
    LET date == ResolveDate(rec, clock)
        c1 == ClockAfterDate(rec, clock)
    IN /\ IF FloatRaises(Get(rec, "amount", "0.0"))
          THEN \* float() raises ValueError out of add_record
               /\ c1 <= MaxClock
               /\ clock' = c1
               /\ result' = [result EXCEPT ![s] =
                                Raised("add_record", "could not convert string to float")]
               /\ UNCHANGED <<df, columns>>
          ELSE /\ c1 + 1 <= MaxClock
               /\ clock' = c1 + 1
               /\ df' = [df EXCEPT ![s] =
                            Append(df[s],
                                   concat_row(columns[s], NewRow(rec, date, NowAt(c1))))]
               /\ columns' = [columns EXCEPT ![s] = concat_columns(columns[s])]
               /\ result' = [result EXCEPT ![s] = Returned("add_record")]
       /\ UNCHANGED <<file, outputs>>

\* save() that sorts the ledger by date ascending.
Save_Ascending(s) ==
    /\ IF IsEmpty(df[s])
       THEN UNCHANGED <<df, file>>
       ELSE \E sorted \in sort_values(df[s], TRUE) :
               /\ df' = [df EXCEPT ![s] = sorted]
               /\ file' = Workbook(columns[s], sorted)
    /\ result' = [result EXCEPT ![s] = Returned("save")]
    /\ UNCHANGED <<columns, clock, outputs>>

\* save() without the check for an empty ledger.
Save_NoEmptyCheck(s) ==
    /\ \E sorted \in sort_values(df[s], FALSE) :
           /\ df' = [df EXCEPT ![s] = sorted]
           /\ file' = Workbook(columns[s], sorted)
    /\ result' = [result EXCEPT ![s] = Returned("save")]
    /\ UNCHANGED <<columns, clock, outputs>>

\* save() that keeps the rows already in the workbook and adds its own.
Save_Merge(s) ==
    /\ IF IsEmpty(df[s])
       THEN UNCHANGED <<df, file>>
       ELSE \E sorted \in sort_values(df[s], FALSE) :
               /\ df' = [df EXCEPT ![s] = sorted]
               /\ file' = [Workbook(columns[s], sorted) EXCEPT
                              !.bills = BillsSheet(sorted) \o file.bills]
    /\ result' = [result EXCEPT ![s] = Returned("save")]
    /\ UNCHANGED <<columns, clock, outputs>>

\* manager.save()
Save(s) ==
    /\ IF IsEmpty(df[s])
       THEN UNCHANGED <<df, file>>
       ELSE \E sorted \in sort_values(df[s], FALSE) :
               /\ df' = [df EXCEPT ![s] = sorted]
               /\ file' = Workbook(columns[s], sorted)
    /\ result' = [result EXCEPT ![s] = Returned("save")]
    /\ UNCHANGED <<columns, clock, outputs>>

\* get_summary(): the dict returned for the DataFrame d.  date_range holds the
\* Timestamps that the code renders with str().
get_summary(d) ==
    IF IsEmpty(d)
    THEN [total_records |-> 0, total_amount |-> 0, message |-> "No records found"]
    ELSE [total_records |-> Len(d),
          total_amount |-> SumAmount(d),
          date_range |-> [earliest |-> DateMin(d), latest |-> DateMax(d)],
          by_category |-> GroupSum(d, "category"),
          by_year |-> GroupSum(d, "year"),
          by_provider |-> GroupSum(d, "provider")]

\* manager.get_summary()
GetSummary(s) ==
    /\ result' = [result EXCEPT ![s] = ReturnedSummary(get_summary(df[s]))]
    /\ UNCHANGED <<file, df, columns, clock, outputs>>

\* The rows of a sheet written from the columns cols of d, in the order of d.
Sheet(d, cols) ==
    [i \in 1..Len(d) |-> [c \in cols |-> WriteRow(d[i])[c]]]

\* The four sheets export_for_taxes writes for the sorted rows d of a year.
TaxWorkbook(d, year) ==
    [details |-> Sheet(d, {"date", "provider", "category", "amount", "description"}),
     category_summary |->
        {[category |-> WriteText(k), total_amount |-> SumAmount(Group(d, "category", k))] :
            k \in GroupKeys(d, "category")},
     monthly_summary |->
        {[month |-> r.month, month_name |-> MonthName(r.date.month),
          amount |-> SumAmount(SelectSeq(d, LAMBDA q :
                        q.month = r.month /\ q.date.month = r.date.month))] :
            r \in {d[i] : i \in 1..Len(d)}},
     summary |-> [total_amount |-> FormatCents(SumAmount(d), 1),
                  number_of_bills |-> Len(d),
                  average_bill_amount |-> FormatCents(SumAmount(d), Len(d)),
                  tax_year |-> year]]

\* export_for_taxes without the check for an empty selection.
ExportForTaxes_NoCheck(s, year) ==
    LET year_df == SelectSeq(df[s], LAMBDA r : NumEq(r.year, year))
    IN /\ \E sorted \in sort_values(year_df, TRUE) :
              /\ outputs' = [outputs EXCEPT ![TaxPath(year)] =
                                <<[details |-> Sheet(sorted, {"date", "provider",
                                        "category", "amount", "description"}),
                                   category_summary |-> {},
                                   monthly_summary |-> {},
                                   summary |-> [total_amount |-> FormatCents(SumAmount(sorted), 1),
                                                number_of_bills |-> Len(sorted),
                                                average_bill_amount |-> 0,
                                                tax_year |-> year]]>>]
              /\ result' = [result EXCEPT ![s] =
                               ReturnedPath("export_for_taxes", TaxPath(year))]
       /\ UNCHANGED <<file, df, columns, clock>>

\* manager.export_for_taxes(year), to the default output path
ExportForTaxes(s, year) ==
    LET year_df == SelectSeq(df[s], LAMBDA r : NumEq(r.year, year))
    IN /\ IF "year" \notin Range(columns[s])
          THEN \* self.df["year"] raises KeyError
               /\ result' = [result EXCEPT ![s] = Raised("export_for_taxes", "KeyError")]
               /\ UNCHANGED outputs
          ELSE IF IsEmpty(year_df)
          THEN /\ result' = [result EXCEPT ![s] =
                                Raised("export_for_taxes", "No records found for year")]
               /\ UNCHANGED outputs
          ELSE \E sorted \in sort_values(year_df, TRUE) :
                  /\ outputs' = [outputs EXCEPT ![TaxPath(year)] =
                                    <<TaxWorkbook(sorted, year)>>]
                  /\ result' = [result EXCEPT ![s] =
                                   ReturnedPath("export_for_taxes", TaxPath(year))]
       /\ UNCHANGED <<file, df, columns, clock>>

\* An eligibility list that lets gym memberships through.
hsa_eligible_categories_Gym ==
    {"medical", "dental", "vision", "prescription", "pharmacy", "gym"}

hsa_eligible_categories == {"medical", "dental", "vision", "prescription", "pharmacy"}

\* The two sheets export_hsa_reconciliation writes for the sorted rows d.
HsaWorkbook(d) ==
    [hsa_expenses |->
        Sheet(d, {"date", "provider", "category", "amount", "description", "pdf_path"}),
     yearly_totals |->
        {[year |-> k, total |-> SumAmount(Group(d, "year", k))] :
            k \in GroupKeys(d, "year")}]

\* manager.export_hsa_reconciliation(), to the default output path
ExportHsa(s) ==
    LET hsa_df == SelectSeq(df[s], LAMBDA r : r.category \in hsa_eligible_categories)
    IN /\ IF "category" \notin Range(columns[s])
          THEN \* self.df["category"] raises KeyError
               /\ result' = [result EXCEPT ![s] =
                                Raised("export_hsa_reconciliation", "KeyError")]
               /\ UNCHANGED outputs
          ELSE IF IsEmpty(hsa_df)
          THEN /\ result' = [result EXCEPT ![s] =
                                Raised("export_hsa_reconciliation",
                                       "No HSA-eligible records found")]
               /\ UNCHANGED outputs
          ELSE \E sorted \in sort_values(hsa_df, TRUE) :
                  /\ outputs' = [outputs EXCEPT ![HsaPath] = <<HsaWorkbook(sorted)>>]
                  /\ result' = [result EXCEPT ![s] =
                                   ReturnedPath("export_hsa_reconciliation", HsaPath)]
       /\ UNCHANGED <<file, df, columns, clock>>

\* The tax years callers ask for.
TaxYears == {2024, 2099}

\* The record store: sessions that load, add and save on one backing file.
Next ==
    \/ \E s \in Sessions : Construct(s)
    \/ \E s \in Sessions, rec \in Inputs : AddRecord(s, rec)
    \/ \E s \in Sessions : Save(s)

Spec == Init /\ [][Next]_vars

\* The session whose reporting calls are followed.
Reporter == "s1"

\* The reporting engine on top of the store: one session that also
\* summarizes and exports.
NextReport ==
    \/ Construct(Reporter)
    \/ \E rec \in Inputs : AddRecord(Reporter, rec)
    \/ Save(Reporter)
    \/ GetSummary(Reporter)
    \/ \E year \in TaxYears : ExportForTaxes(Reporter, year)
    \/ ExportHsa(Reporter)

SpecReport == Init /\ [][NextReport]_vars

\* A session may also start on a workbook that another program or a user's
\* hand has left at workbook_path.
InitLoad ==
    /\ file \in {AbsentFile, CorruptFile} \cup ForeignFiles
    /\ df = [s \in Sessions |-> LoadFile(file)]
    /\ columns = [s \in Sessions |-> LoadColumns(file)]
    /\ clock = 0
    /\ outputs = [p \in OutputPaths |-> <<>>]
    /\ result = [s \in Sessions |-> Returned("__init__")]

\* One session on whatever the backing file holds.
NextLoad ==
    \/ Construct(Reporter)
    \/ \E rec \in Inputs : AddRecord(Reporter, rec)
    \/ Save(Reporter)

SpecLoad == InitLoad /\ [][NextLoad]_vars

\* The record add_bill_to_spreadsheet_tool builds from its arguments.
ToolRecord(args) ==
    [provider |-> Get(args, "provider", ""),
     date |-> Get(args, "date", ""),
     amount |-> Get(args, "amount", "0.0"),
     pdf_path |-> Get(args, "pdf_path", ""),
     description |-> Get(args, "description", ""),
     category |-> Get(args, "category", "medical")]

\* add_bill_to_spreadsheet_tool(args): a manager of its own is constructed on
\* the backing file, the record is added and the ledger saved; an exception
\* makes the call return isError.  The manager is dropped on return.
AddBillTool(args) ==
    LET record == ToolRecord(args)
        date == ResolveDate(record, clock)
        c1 == ClockAfterDate(record, clock)
        cols == concat_columns(LoadColumns(file))
        added == Append(LoadFile(file),
                        concat_row(LoadColumns(file), NewRow(record, date, NowAt(c1))))
    IN /\ IF FloatRaises(record.amount)
          THEN /\ c1 <= MaxClock
               /\ clock' = c1
               /\ result' = [result EXCEPT ![Reporter] =
                                Raised("add_bill_to_spreadsheet",
                                       "could not convert string to float")]
               /\ UNCHANGED file
          ELSE /\ c1 + 1 <= MaxClock
               /\ clock' = c1 + 1
               /\ \E sorted \in sort_values(added, FALSE) : file' = Workbook(cols, sorted)
               /\ result' = [result EXCEPT ![Reporter] = Returned("add_bill_to_spreadsheet")]
       /\ UNCHANGED <<df, columns, outputs>>

\* get_spreadsheet_summary_tool(args)
GetSummaryTool ==
    /\ result' = [result EXCEPT ![Reporter] =
                     [ReturnedSummary(get_summary(LoadFile(file))) EXCEPT
                         !.op = "get_spreadsheet_summary"]]
    /\ UNCHANGED <<file, df, columns, clock, outputs>>

\* export_for_taxes_tool(args) with args = {"year": year}
ExportForTaxesTool(year) ==
    LET year_df == SelectSeq(LoadFile(file), LAMBDA r : NumEq(r.year, year))
    IN /\ IF "year" \notin Range(LoadColumns(file))
          THEN /\ result' = [result EXCEPT ![Reporter] =
                                Raised("export_for_taxes_tool", "KeyError")]
               /\ UNCHANGED outputs
          ELSE IF IsEmpty(year_df)
          THEN /\ result' = [result EXCEPT ![Reporter] =
                                Raised("export_for_taxes_tool", "No records found for year")]
               /\ UNCHANGED outputs
          ELSE \E sorted \in sort_values(year_df, TRUE) :
                  /\ outputs' = [outputs EXCEPT ![TaxPath(year)] =
                                    <<TaxWorkbook(sorted, year)>>]
                  /\ result' = [result EXCEPT ![Reporter] =
                                   ReturnedPath("export_for_taxes_tool", TaxPath(year))]
       /\ UNCHANGED <<file, df, columns, clock>>

\* The agent: tool calls, one at a time, on whatever the backing file holds.
NextTool ==
    \/ \E args \in Inputs : AddBillTool(args)
    \/ GetSummaryTool
    \/ \E year \in TaxYears : ExportForTaxesTool(year)

SpecTool == InitLoad /\ [][NextTool]_vars

-----------------------------------------------------------------------------
(* Vocabulary of the properties *)

\* a and b hold the same elements the same number of times.
SameBag(a, b) ==
    /\ Len(a) = Len(b)
    /\ \A i \in 1..Len(a) :
          Cardinality({j \in 1..Len(a) : a[j] = a[i]}) =
          Cardinality({j \in 1..Len(b) : b[j] = a[i]})

\* What identifies a record in the round trip.
KeyFields(r) ==
    [provider |-> r.provider, date |-> r.date, amount |-> r.amount,
     category |-> r.category]

KeyRows(d) == [i \in 1..Len(d) |-> KeyFields(d[i])]

RECURSIVE AmountOver(_, _)
\* The sum of the amounts of d at the indices I.
AmountOver(d, I) ==
    IF I = {} THEN 0
    ELSE LET i == CHOOSE j \in I : TRUE
         IN d[i].amount + AmountOver(d, I \ {i})

\* A value as it stands in a sheet: a missing text is an empty cell.
AsCell(v) == IF v = NaN THEN "" ELSE v

-----------------------------------------------------------------------------
(* C1 *)

\* C1 (as claimed): after save() on a non-empty ledger, a fresh manager on the
\* same workbook holds the same records, compared by provider, date, amount
\* and category and ignoring row order.
C1_RoundTrip ==
    [][\A s \in Sessions :
          (Save(s) /\ ~IsEmpty(df[s]))
              => SameBag(KeyRows(LoadFile(file')), KeyRows(df'[s]))]_vars

-----------------------------------------------------------------------------
(* C2 *)

\* C2: save() on an empty ledger leaves the backing file (absent, valid or
\* corrupt) and every ledger as they were.
C2_EmptySaveKeepsFile ==
    [][\A s \in Sessions :
          (Save(s) /\ Len(df[s]) = 0) => (file' = file /\ df' = df)]_vars

\* An empty session has called save() while another session's workbook is on
\* disk.
C2_Witness ==
    \E s \in Sessions :
        /\ result[s].op = "save"
        /\ Len(df[s]) = 0
        /\ file.kind = "valid"

-----------------------------------------------------------------------------
(* C3 *)

\* C3 (as claimed): in every ledger, every record's year and month are those
\* of its date (a missing date going with a missing year and month).
C3_YearMonthOfDate ==
    \A s \in Sessions : \A i \in 1..Len(df[s]) :
        /\ df[s][i].year = YearOf(df[s][i].date)
        /\ df[s][i].month = MonthOf(df[s][i].date)

-----------------------------------------------------------------------------
(* C4 *)

\* The date of rec is no parseable date string: missing, empty, null or no date.
NoParseableDate(rec) == Get(rec, "date", "") \notin DOMAIN DateTable

\* C4 (as claimed): add_record of a record without a parseable date returns
\* normally and appends one record dated with the clock reading of the call,
\* year and month taken from it.
C4_FallbackToNow ==
    [][\A s \in Sessions : \A rec \in Inputs :
          (AddRecord(s, rec) /\ NoParseableDate(rec))
              => /\ result'[s].raised = ""
                 /\ Len(df'[s]) = Len(df[s]) + 1
                 /\ df'[s][Len(df'[s])].date = NowAt(clock)
                 /\ df'[s][Len(df'[s])].year = NowAt(clock).year
                 /\ df'[s][Len(df'[s])].month = NowAt(clock).month]_vars

-----------------------------------------------------------------------------
(* C5 *)

\* C5: a successful add_record leaves the backing file, the export artifacts
\* and the other ledgers alone, and its own ledger becomes the previous ledger,
\* unchanged and in the same order, followed by exactly one new record.
C5_AppendOnly ==
    [][\A s \in Sessions : \A rec \in Inputs :
          (AddRecord(s, rec) /\ result'[s].raised = "")
              => /\ Len(df'[s]) = Len(df[s]) + 1
                 /\ SubSeq(df'[s], 1, Len(df[s])) = df[s]
                 /\ \A t \in Sessions \ {s} : df'[t] = df[t]
                 /\ file' = file
                 /\ outputs' = outputs]_vars

\* add_record has just succeeded on a ledger that already held a record.
C5_Witness ==
    \E s \in Sessions :
        /\ result[s].op = "add_record"
        /\ result[s].raised = ""
        /\ Len(df[s]) >= 2
        /\ df[s][1] # df[s][2]

-----------------------------------------------------------------------------
(* C6 *)

\* The map m gives, for every value of column col that occurs in d, the sum of
\* the amounts of the rows with that value, and nothing else (a row whose
\* value is missing belongs to no group).
MapsGroupsToSums(m, d, col) ==
    /\ \A i \in 1..Len(d) :
          d[i][col] # Missing(col)
              => /\ d[i][col] \in DOMAIN m
                 /\ m[d[i][col]] = AmountOver(d, {j \in 1..Len(d) : d[j][col] = d[i][col]})
    /\ \A k \in DOMAIN m : \E i \in 1..Len(d) : d[i][col] = k

\* C6: what get_summary returned is, for an empty ledger, 0 records, amount 0
\* and the message "No records found"; for a ledger of N >= 1 records, N, the
\* sum of all amounts, and per category, year and provider the sum of the
\* amounts of the records of each group.
C6_Summary ==
    result[Reporter].op = "get_summary" =>
        LET d == df[Reporter]
            v == result[Reporter].summary[1]
        IN IF Len(d) = 0
           THEN /\ v.total_records = 0
                /\ v.total_amount = 0
                /\ v.message = "No records found"
           ELSE /\ v.total_records = Len(d)
                /\ v.total_amount = AmountOver(d, 1..Len(d))
                /\ MapsGroupsToSums(v.by_category, d, "category")
                /\ MapsGroupsToSums(v.by_year, d, "year")
                /\ MapsGroupsToSums(v.by_provider, d, "provider")

\* get_summary has returned for a ledger of two records in different groups.
C6_Witness ==
    /\ result[Reporter].op = "get_summary"
    /\ Len(df[Reporter]) >= 2
    /\ Cardinality(DOMAIN result[Reporter].summary[1].by_category) >= 2
    /\ Cardinality(DOMAIN result[Reporter].summary[1].by_provider) >= 2

-----------------------------------------------------------------------------
(* C7 *)

\* The sheet holds exactly the rows of d at the indices I, one sheet row per
\* record, each as cell(record).
ExactlyRows(sheet, d, I, cell(_)) ==
    /\ Len(sheet) = Cardinality(I)
    /\ \A i \in 1..Len(sheet) :
          Cardinality({j \in 1..Len(sheet) : sheet[j] = sheet[i]}) =
          Cardinality({j \in I : cell(d[j]) = sheet[i]})

\* Rows in ascending date order, those without a date last.
AscendingByDate(sheet) ==
    \A i, j \in 1..Len(sheet) :
        i < j => /\ IsNaT(sheet[i].date) => IsNaT(sheet[j].date)
                 /\ (~IsNaT(sheet[i].date) /\ ~IsNaT(sheet[j].date))
                        => ~TsLess(sheet[j].date, sheet[i].date)

DetailsCell(r) ==
    [date |-> r.date, provider |-> AsCell(r.provider), category |-> AsCell(r.category),
     amount |-> r.amount, description |-> AsCell(r.description)]

\* The indices of the records of d whose year field is year.
OfYear(d, year) == {i \in 1..Len(d) : d[i].year = year}

\* Details of the artifact written for year: exactly the records of that
\* year, in ascending date order, and as many bills in the Summary.
DetailsOfYear(art, d, year) ==
    /\ ExactlyRows(art.details, d, OfYear(d, year), DetailsCell)
    /\ AscendingByDate(art.details)
    /\ art.summary.number_of_bills = Cardinality(OfYear(d, year))

\* C7 (as claimed): export_for_taxes(y) with a matching record writes Details
\* with exactly the records whose year field is y, ascending by date, and a
\* Summary with their number and, as total, the sum of their amounts.
C7_TaxExportTotalIsSum ==
    [][\A year \in TaxYears :
          (ExportForTaxes(Reporter, year) /\ OfYear(df[Reporter], year) # {})
              => LET art == outputs'[TaxPath(year)][1]
                     d == df[Reporter]
                 IN /\ DetailsOfYear(art, d, year)
                    /\ 10 * art.summary.total_amount = AmountOver(d, OfYear(d, year))]_vars

\* C7 (amended): as C7, the Summary total being the sum of the amounts
\* rounded to the cent (it is formatted with two decimals).
C7_TaxExport ==
    [][\A year \in TaxYears :
          (ExportForTaxes(Reporter, year) /\ OfYear(df[Reporter], year) # {})
              => LET art == outputs'[TaxPath(year)][1]
                     d == df[Reporter]
                     off == AmountOver(d, OfYear(d, year)) - 10 * art.summary.total_amount
                 IN /\ DetailsOfYear(art, d, year)
                    /\ -5 <= off /\ off <= 5]_vars

\* The export for 2024 has just been written from a ledger that held the two
\* records of 2024 latest first; their amounts sum to $200.004.
C7_Witness ==
    /\ result[Reporter].op = "export_for_taxes"
    /\ result[Reporter].raised = ""
    /\ Len(outputs[TaxPath(2024)][1].details) = 2
    /\ TsLess(df[Reporter][2].date, df[Reporter][1].date)
    /\ outputs[TaxPath(2024)][1].summary.total_amount = 20000

-----------------------------------------------------------------------------
(* C8 *)

\* C8: an export whose selection is empty raises its "no records" error and
\* writes no artifact: export_for_taxes(y) without a record of year y, and
\* export_hsa_reconciliation without a record of an HSA-eligible category.
C8_EmptyExportRaises ==
    [][/\ \A year \in TaxYears :
             (ExportForTaxes(Reporter, year) /\ OfYear(df[Reporter], year) = {})
                 => /\ result'[Reporter].raised = "No records found for year"
                    /\ result'[Reporter].path = ""
                    /\ outputs' = outputs
       /\ (ExportHsa(Reporter) /\
             \A i \in 1..Len(df[Reporter]) :
                 df[Reporter][i].category \notin
                     {"medical", "dental", "vision", "prescription", "pharmacy"})
             => /\ result'[Reporter].raised = "No HSA-eligible records found"
                /\ result'[Reporter].path = ""
                /\ outputs' = outputs]_vars

\* export_for_taxes has raised on a ledger that holds records, none of the
\* year asked for, and no artifact for 2099 exists.
C8_Witness ==
    /\ result[Reporter].op = "export_for_taxes"
    /\ result[Reporter].raised = "No records found for year"
    /\ Len(df[Reporter]) >= 1
    /\ OfYear(df[Reporter], 2024) # {}
    /\ outputs[TaxPath(2099)] = <<>>

-----------------------------------------------------------------------------
(* C9 *)

HsaCell(r) ==
    [date |-> r.date, provider |-> AsCell(r.provider), category |-> AsCell(r.category),
     amount |-> r.amount, description |-> AsCell(r.description),
     pdf_path |-> AsCell(r.pdf_path)]

\* The indices of the records of d of an HSA-eligible category.
Eligible(d) ==
    {i \in 1..Len(d) :
        d[i].category \in {"medical", "dental", "vision", "prescription", "pharmacy"}}

\* C9: export_hsa_reconciliation writes HSA Expenses with exactly the records
\* of the five eligible categories, in ascending date order, and every yearly
\* total is the sum over the eligible records of that year: a record of any
\* other category is in neither.
C9_HsaOnlyEligible ==
    [][(ExportHsa(Reporter) /\ Eligible(df[Reporter]) # {})
          => LET art == outputs'[HsaPath][1]
                 d == df[Reporter]
             IN /\ ExactlyRows(art.hsa_expenses, d, Eligible(d), HsaCell)
                /\ AscendingByDate(art.hsa_expenses)
                /\ \A t \in art.yearly_totals :
                      t.total = AmountOver(d, {i \in Eligible(d) : d[i].year = t.year})]_vars

\* The HSA export has just been written from a ledger that holds a gym record
\* beside an eligible one.
C9_Witness ==
    /\ result[Reporter].op = "export_hsa_reconciliation"
    /\ result[Reporter].raised = ""
    /\ \E i \in 1..Len(df[Reporter]) : df[Reporter][i].category = "gym"
    /\ Len(outputs[HsaPath][1].hsa_expenses) = 1
    /\ outputs[HsaPath][1].yearly_totals # {}

-----------------------------------------------------------------------------
(* C10 *)

BillsCell(r) ==
    [r EXCEPT !.provider = AsCell(r.provider), !.category = AsCell(r.category),
              !.description = AsCell(r.description), !.pdf_path = AsCell(r.pdf_path)]

\* C10: whatever the backing file holds and whatever the other session has
\* done, save() on a non-empty ledger returns without error and leaves in the
\* Bills sheet exactly the saver's own records; the other session sees
\* nothing of it.
C10_LastSaveWins ==
    [][\A s \in Sessions :
          (Save(s) /\ Len(df[s]) > 0)
              => /\ file'.kind = "valid"
                 /\ ExactlyRows(file'.bills, df[s], 1..Len(df[s]), BillsCell)
                 /\ result'[s].raised = ""
                 /\ \A t \in Sessions \ {s} : result'[t] = result[t] /\ df'[t] = df[t]]_vars

\* Both sessions added a record and saved without error; the file holds the
\* records of s2, and a record s1 saved is not in it.
C10_Witness ==
    /\ result["s1"].op = "save" /\ result["s1"].raised = ""
    /\ result["s2"].op = "save" /\ result["s2"].raised = ""
    /\ Len(df["s1"]) = 1 /\ Len(df["s2"]) = 1
    /\ file.bills = <<BillsCell(df["s2"][1])>>
    /\ BillsCell(df["s1"][1]) # BillsCell(df["s2"][1])

-----------------------------------------------------------------------------
(* C11 *)

\* The backing file is absent, or is no workbook that holds a sheet "Bills"
\* with the nine canonical columns in their order.
Unparseable(f) == f.kind \in {"absent", "corrupt"} \/ f.columns # Columns

\* C11 (as claimed): constructing a manager never fails, and when the backing
\* file is absent or cannot be parsed (corrupt, wrong schema) the session
\* starts with an empty ledger that has exactly the nine canonical columns in
\* their order.
C11_StartsEmptyOnBadFile ==
    result[Reporter].op = "__init__"
        => /\ result[Reporter].raised = ""
           /\ Unparseable(file)
                 => df[Reporter] = EmptyDataFrame /\ columns[Reporter] = Columns

-----------------------------------------------------------------------------
(* C12 *)

\* Rows in descending date order, those without a date last.
DescendingByDate(d) ==
    \A i, j \in 1..Len(d) :
        i < j => /\ IsNaT(d[i].date) => IsNaT(d[j].date)
                 /\ (~IsNaT(d[i].date) /\ ~IsNaT(d[j].date))
                       => ~TsLess(d[i].date, d[j].date)

\* C12: save() on a non-empty ledger only reorders records: afterwards the
\* in-memory ledger holds the same multiset of records as before, ordered by
\* date descending, and the Bills sheet holds these records in this order,
\* none added, dropped or altered.
C12_SaveOnlyReorders ==
    [][\A s \in Sessions :
          (Save(s) /\ Len(df[s]) > 0)
              => /\ SameBag(df'[s], df[s])
                 /\ DescendingByDate(df'[s])
                 /\ file'.bills = [i \in 1..Len(df'[s]) |-> BillsCell(df'[s][i])]]_vars

\* s1 saved two records of different dates, and the one it added last now
\* stands first.
C12_Witness ==
    /\ result["s1"].op = "save" /\ result["s1"].raised = ""
    /\ Len(df["s1"]) = 2
    /\ ~IsNaT(df["s1"][2].date)
    /\ TsLess(df["s1"][2].date, df["s1"][1].date)
    /\ TsLess(df["s1"][2].added_on, df["s1"][1].added_on)
    /\ file.bills = [i \in 1..2 |-> BillsCell(df["s1"][i])]

-----------------------------------------------------------------------------
(* C13 *)

\* The auxiliary table has one row per value of column col that occurs in the
\* sheet bills (empty is the cell of a missing value), and each row holds the
\* sum of the amounts and the number of the bills rows with its key.
AuxMatchesBills(table, bills, col, empty) ==
    /\ \A i \in 1..Len(bills) :
          bills[i][col] # empty => \E row \in table : row.key = bills[i][col]
    /\ \A row, other \in table : row.key = other.key => row = other
    /\ \A row \in table :
          LET I == {i \in 1..Len(bills) : bills[i][col] = row.key}
          IN /\ I # {}
             /\ row.amount = AmountOver(bills, I)
             /\ row.num_bills = Cardinality(I)

\* C13 (as claimed): in every workbook written by save(), By Year, By Category
\* and By Provider have one row per group key of the Bills sheet, with amount
\* the sum of the amounts and num_bills the number of the Bills records of
\* the group.
C13_AuxTablesMatchBills ==
    file.kind = "valid"
        => /\ AuxMatchesBills(file.by_year, file.bills, "year", nan)
           /\ AuxMatchesBills(file.by_category, file.bills, "category", "")
           /\ AuxMatchesBills(file.by_provider, file.bills, "provider", "")

-----------------------------------------------------------------------------
(* C14 *)

\* The sequence q without its element at i.
RemoveAt(q, i) == [j \in 1..(Len(q) - 1) |-> IF j < i THEN q[j] ELSE q[j + 1]]

\* C14 (as claimed): whenever an add_bill_to_spreadsheet call reports
\* success, the backing file afterwards holds every record it held before
\* the call (by provider, date, amount and category) plus the new one.
C14_ToolLosesNothing ==
    [][\A args \in Inputs :
          (AddBillTool(args) /\ result'[Reporter].raised = "")
              => \E i \in 1..Len(file'.bills) :
                    /\ KeyFields(file'.bills[i]) =
                          KeyFields(WriteRow(NewRow(ToolRecord(args),
                                                    ResolveDate(ToolRecord(args), clock),
                                                    NaT)))
                    /\ SameBag(KeyRows(RemoveAt(file'.bills, i)), KeyRows(file.bills))]_vars

=============================================================================
